---- MODULE Spec2Model ----
(***************************************************************************)
(* columnize_output() of columnize_output.py as a state machine.           *)
(*                                                                         *)
(* A text (Python str) is a sequence of one-character strings.  The Python *)
(* object None is the one-element sequence <<"None">>, which is no text    *)
(* because its element is not a single character.  A row of the input is   *)
(* a record: [kind |-> "list", v |-> <<field, ...>>] for a Python list     *)
(* and [kind |-> "str", v |-> <<text>>] for a bare Python string.          *)
(*                                                                         *)
(* The line under construction and the rendered lines are kept as the      *)
(* sequence of the pieces that `line +=` appended (a piece records the     *)
(* branch that appended it); the Python string is Flat() of it.            *)
(***************************************************************************)
EXTENDS Integers, Sequences, FiniteSets, TLC

\* ------------------------------------------------------------------ bounds
MaxRows == 3
MaxCols == 2
MaxLineSegs == 16

\* ------------------------------------------------------------- Python data
None == <<"None">>
EmptyText == <<>>

ListRow(fields) == [kind |-> "list", v |-> fields]
StrRow(text) == [kind |-> "str", v |-> <<text>>]
StrText(row) == row.v[1]

\* 'list' in str(type(row)) / 'str' in str(type(row))
IsList(row) == row.kind = "list"
IsStr(row) == row.kind = "str"

\* len(row): the fields of a list, the characters of a string
PyLen(row) == IF IsStr(row) THEN Len(StrText(row)) ELSE Len(row.v)

\* repr(x) in place of str(x): a text comes back in quotes
ToRepr(x) == IF x = None THEN <<"N", "o", "n", "e">> ELSE <<"'">> \o x \o <<"'">>

\* str(x) for the values a field can hold
ToStr(x) == IF x = None THEN <<"N", "o", "n", "e">> ELSE x

Spaces(n) == [i \in 1..n |-> " "]

\* s.ljust(n - 1): the padding one blank short
LjustShort(s, n) == IF Len(s) >= n - 1 THEN s ELSE s \o Spaces(n - 1 - Len(s))

\* s.ljust(n): pad on the right with blanks up to n characters
Ljust(s, n) == IF Len(s) >= n THEN s ELSE s \o Spaces(n - Len(s))

\* s.rjust(n): pad on the left with blanks up to n characters
Rjust(s, n) == IF Len(s) >= n THEN s ELSE Spaces(n - Len(s)) \o s

\* every token that is no run of blanks taken for a justification
IsJustifyLoose(tok) == ~(Len(tok) >= 1 /\ \A i \in 1..Len(tok) : tok[i] = " ")

\* lines 293 and 295: the token is 'L' or 'R'
IsJustify(tok) == tok = <<"L">> \/ tok = <<"R">>

\* re.search('^( +)$', tok): a run of one or more blanks
IsSpacer(tok) == Len(tok) >= 1 /\ \A i \in 1..Len(tok) : tok[i] = " "

RECURSIVE SplitFrom(_, _, _, _)
SplitFrom(s, i, cur, acc) ==
    IF i > Len(s) THEN Append(acc, cur)
    ELSE IF s[i] = "," THEN SplitFrom(s, i + 1, <<>>, Append(acc, cur))
    ELSE SplitFrom(s, i + 1, Append(cur, s[i]), acc)

\* s.split(','): always at least one token, '' included
Split(s) == SplitFrom(s, 1, <<>>, <<>>)

RECURSIVE LStrip(_)
LStrip(s) == IF s # <<>> /\ s[1] = " " THEN LStrip(Tail(s)) ELSE s

\* one csv.reader record of a line without quote characters: an empty line
\* is the record [], otherwise the comma-separated fields, each without its
\* leading blanks when skipinitialspace is set
CsvRow(text, skipinitialspace) ==
    IF text = <<>> THEN <<>>
    ELSE LET toks == Split(text)
         IN  [i \in 1..Len(toks) |->
                 IF skipinitialspace THEN LStrip(toks[i]) ELSE toks[i]]

\* ------------------------------------------------------------------ inputs
Pat1(i) == IF i % 2 = 1 THEN <<"a">> ELSE <<"b", "b">>
Pat2(i) == IF i % 2 = 1 THEN None ELSE <<"a">>

PatRow1(n) == ListRow([i \in 1..n |-> Pat1(i)])
PatRow2(n) == ListRow([i \in 1..n |-> Pat2(i)])

ListRows == {PatRow1(n) : n \in 0..MaxCols} \cup {PatRow2(n) : n \in 0..MaxCols}
StrRows == {StrRow(<<>>), StrRow(<<"a">>), StrRow(<<"a", ",", "b", "b">>)}
Rows == ListRows \cup StrRows

\* every list of at most MaxRows rows, the empty list included
Tables == UNION {[1..n -> Rows] : n \in 0..MaxRows}

\* the tables rendered under every justification spec: one or two rows,
\* among them a row of three columns and the six columns of the docstring
WideRow == PatRow1(6)
FewRows == ListRows \cup {PatRow2(3), WideRow}
FewTables == UNION {[1..n -> FewRows] : n \in 1..2}

\* what sys.stdin holds: text lines
Streams == {<<>>, <<StrRow(<<"a", ",", "b", "b">>)>>,
            <<StrRow(<<"a", ",", "b", "b">>), StrRow(<<>>), StrRow(<<"a">>)>>}

DefaultJustify == <<"L", ",", "R">>

\* the docstring's example: "L,R,R,L,   ,R"
DocExampleJustify ==
    <<"L", ",", "R", ",", "R", ",", "L", ",", " ", " ", " ", ",", "R">>

JustifySpecs ==
    { DefaultJustify,
      DocExampleJustify,
      <<"L">>,
      <<"R", ",", "L">>,
      <<"L", ",", "Q", ",", "R">>,
      <<"L", ",", " ", " ", ",", "R">>,
      <<" ", ",", "L">>,
      <<"L", ",", " ">>,
      <<"L", ",", "R", ",", " ">>,
      <<"L", ",", "Q">>,
      <<"L", ",", "R", ",", "Q">>,
      <<"Q">>,
      <<>> }

\* ------------------------------------------------------------------- state
VARIABLES
    input_data,     \* the caller's object: [type, v]; a list is mutated in place
    justify_cols,   \* the justify_cols argument
    table0,         \* the rows of input_data as the caller built them
    call,           \* 1 or 2: which call on input_data is running
    pc,             \* position in columnize_output
    list_of_lists_of_strings,
    rc,
    curr_max_num_cols,
    index,          \* reconciliation loop: the row looked at (from 1)
    justify_cols_list,
    max_col_widths,
    columnized_output_list_of_strings,
    line,
    justify_col_curr,
    curr_col,
    result,         \* how the running call ended
    first_result    \* how the first call ended

vars == <<input_data, justify_cols, table0, call, pc, list_of_lists_of_strings,
          rc, curr_max_num_cols, index, justify_cols_list, max_col_widths,
          columnized_output_list_of_strings, line, justify_col_curr, curr_col,
          result, first_result>>

NoResult == [how |-> "running", rc |-> 0, lines |-> <<>>, info |-> ""]

\* the text of a line: its pieces concatenated
RECURSIVE Flat(_)
Flat(segs) == IF segs = <<>> THEN <<>> ELSE Head(segs).t \o Flat(Tail(segs))

Seg(j, c, t) == [j |-> j, c |-> c, t |-> t]

Init ==
    /\ \/ /\ input_data \in {[type |-> "list", v |-> t] : t \in Tables}
          /\ justify_cols = DefaultJustify
       \/ /\ input_data \in {[type |-> "list", v |-> t] : t \in FewTables}
          /\ justify_cols \in JustifySpecs
       \/ /\ input_data \in {[type |-> "stdin", v |-> s] : s \in Streams}
          /\ justify_cols = DefaultJustify
    /\ table0 = input_data.v
    /\ call = 1
    /\ pc = "entry"
    /\ list_of_lists_of_strings = <<>>
    /\ rc = 0
    /\ curr_max_num_cols = 0
    /\ index = 1
    /\ justify_cols_list = <<>>
    /\ max_col_widths = <<>>
    /\ columnized_output_list_of_strings = <<>>
    /\ line = <<>>
    /\ justify_col_curr = -1
    /\ curr_col = -1
    /\ result = NoResult
    /\ first_result = NoResult

\* a list passed by the caller is the working table itself (line 165)
Aliased(in, rows) ==
    IF in.type = "list" /\ in.v # <<>> /\ IsList(in.v[1])
    THEN [in EXCEPT !.v = rows] ELSE in

Raise(exc) == [how |-> "raised", rc |-> 0, lines |-> <<>>, info |-> exc]

\* ------------------------------------------------- lines 148-200: the input
\* The rows read from the input: [rows, exc]
ReadInput(in) ==
    IF in.type = "list"
    THEN IF in.v = <<>> THEN [rows |-> <<>>, exc |-> "IndexError"]
         ELSE IF IsStr(in.v[1])
         THEN IF \E i \in 1..Len(in.v) : ~IsStr(in.v[i])
              THEN [rows |-> <<>>, exc |-> "csv.Error"]
              ELSE [rows |-> [i \in 1..Len(in.v) |-> ListRow(CsvRow(StrText(in.v[i]), TRUE))],
                    exc |-> ""]
         ELSE [rows |-> in.v, exc |-> ""]
    ELSE [rows |-> [i \in 1..Len(in.v) |-> ListRow(CsvRow(StrText(in.v[i]), FALSE))],
          exc |-> ""]

Enter ==
    /\ pc = "entry"
    /\ LET rd == ReadInput(input_data)
       IN  IF rd.exc # ""
           THEN /\ pc' = "raised"
                /\ result' = Raise(rd.exc)
                /\ UNCHANGED <<input_data, list_of_lists_of_strings, justify_cols_list>>
           ELSE IF Len(rd.rows) = 0
           THEN /\ pc' = "returned"
                /\ result' = [how |-> "returned", rc |-> 1, lines |-> <<>>,
                              info |-> "line 195"]
                /\ list_of_lists_of_strings' = rd.rows
                /\ input_data' = IF input_data.type = "stdin"
                                 THEN [input_data EXCEPT !.v = <<>>] ELSE input_data
                /\ UNCHANGED justify_cols_list
           ELSE /\ pc' = "reconcile"
                /\ list_of_lists_of_strings' = rd.rows
                /\ input_data' = IF input_data.type = "stdin"
                                 THEN [input_data EXCEPT !.v = <<>>] ELSE input_data
                /\ justify_cols_list' = Split(justify_cols)
                /\ UNCHANGED result
    /\ rc' = 0
    /\ curr_max_num_cols' = 0
    /\ index' = 1
    /\ columnized_output_list_of_strings' = <<>>
    /\ UNCHANGED <<justify_cols, table0, call, max_col_widths, line,
                   justify_col_curr, curr_col, first_result>>

\* ------------------------------------- lines 205-243: the reconciliation
\* lines 215-217: a None field becomes ''
NoneToEmpty(row) ==
    ListRow([i \in 1..Len(row.v) |-> IF row.v[i] = None THEN EmptyText ELSE row.v[i]])

\* lines 242-243 for one row: append '' while the row is shorter than n
PadRow(row, n) ==
    IF Len(row.v) < n
    THEN ListRow(row.v \o [i \in 1..(n - Len(row.v)) |-> EmptyText])
    ELSE row

\* lines 239-243: every row of the table, in order; a bare string that is
\* too short has no append(), and the rows after it are not reached
PadAll(rows, n) ==
    LET bad == {i \in 1..Len(rows) : IsStr(rows[i]) /\ PyLen(rows[i]) < n}
        stop == IF bad = {} THEN Len(rows) + 1
                ELSE CHOOSE i \in bad : \A k \in bad : i <= k
    IN  [rows |-> [i \in 1..Len(rows) |->
                      IF i < stop /\ IsList(rows[i]) THEN PadRow(rows[i], n)
                      ELSE rows[i]],
         exc |-> IF bad = {} THEN "" ELSE "AttributeError"]

\* lines 209-213: a one-field list or a bare string is not looked at
Skipped(row) == IF IsList(row) THEN Len(row.v) = 1 ELSE IsStr(row)

\* one iteration of the loop of line 205
ReconcileRow ==
    /\ pc = "reconcile"
    /\ index <= Len(list_of_lists_of_strings)
    /\ index' = index + 1
    /\ LET row == list_of_lists_of_strings[index]
       IN  IF Skipped(row)
           THEN UNCHANGED <<pc, list_of_lists_of_strings, input_data, rc,
                            curr_max_num_cols, result>>
           ELSE LET row1 == NoneToEmpty(row)
                    lol1 == [list_of_lists_of_strings EXCEPT ![index] = row1]
                    n == Len(row1.v)
                IN  IF curr_max_num_cols = 0 \/ n = curr_max_num_cols
                    THEN /\ curr_max_num_cols' =
                               IF curr_max_num_cols = 0 THEN n ELSE curr_max_num_cols
                         /\ list_of_lists_of_strings' = lol1
                         /\ input_data' = Aliased(input_data, lol1)
                         /\ UNCHANGED <<pc, rc, result>>
                    ELSE LET new_max == IF n > curr_max_num_cols THEN n
                                        ELSE curr_max_num_cols
                             pd == PadAll(lol1, new_max)
                         IN  /\ rc' = 2
                             /\ curr_max_num_cols' = new_max
                             /\ list_of_lists_of_strings' = pd.rows
                             /\ input_data' = Aliased(input_data, pd.rows)
                             /\ pc' = IF pd.exc = "" THEN pc ELSE "raised"
                             /\ result' = IF pd.exc = "" THEN result ELSE Raise(pd.exc)
    /\ UNCHANGED <<justify_cols, table0, call, justify_cols_list, max_col_widths,
                   columnized_output_list_of_strings, line, justify_col_curr,
                   curr_col, first_result>>

\* ------------------------------------ lines 245-247: the justify list
\* justify_cols_list[0] appended in place of justify_cols_list[-1]
RECURSIVE PadJustifyFirst(_, _)
PadJustifyFirst(jl, n) ==
    IF Len(jl) < n THEN PadJustifyFirst(Append(jl, jl[1]), n) ELSE jl

RECURSIVE PadJustifyList(_, _)
PadJustifyList(jl, n) ==
    IF Len(jl) < n THEN PadJustifyList(Append(jl, jl[Len(jl)]), n) ELSE jl

\* the loop of line 205 is over; lines 246-247
PadJustify ==
    /\ pc = "reconcile"
    /\ index > Len(list_of_lists_of_strings)
    /\ justify_cols_list' = PadJustifyList(justify_cols_list, curr_max_num_cols)
    /\ pc' = "widths"
    /\ UNCHANGED <<input_data, justify_cols, table0, call, list_of_lists_of_strings,
                   rc, curr_max_num_cols, index, max_col_widths,
                   columnized_output_list_of_strings, line, justify_col_curr,
                   curr_col, result, first_result>>

\* ------------------------------------- lines 249-265: the column widths
\* lines 254-265 for one row, from column i (from 0): [row, widths, exc]
RECURSIVE WidthRow(_, _, _, _)
WidthRow(row, i, n, widths) ==
    IF i >= n THEN [row |-> row, widths |-> widths, exc |-> ""]
    ELSE IF i >= PyLen(row) THEN [row |-> row, widths |-> widths, exc |-> "IndexError"]
    ELSE IF IsStr(row) THEN [row |-> row, widths |-> widths, exc |-> "TypeError"]
    ELSE LET s == ToStr(row.v[i + 1])
             row1 == ListRow([row.v EXCEPT ![i + 1] = s])
             w1 == IF Len(widths) < Len(row.v) THEN Append(widths, Len(s))
                   ELSE IF widths[i + 1] < Len(s)
                        THEN [widths EXCEPT ![i + 1] = Len(s)]
                        ELSE widths
         IN  WidthRow(row1, i + 1, n, w1)

\* lines 251-265 from row r: [rows, widths, exc]
RECURSIVE WidthScan(_, _, _, _)
WidthScan(rows, r, n, widths) ==
    IF r > Len(rows) THEN [rows |-> rows, widths |-> widths, exc |-> ""]
    ELSE IF PyLen(rows[r]) = 1 THEN WidthScan(rows, r + 1, n, widths)
    ELSE LET w == WidthRow(rows[r], 0, n, widths)
             rows1 == [rows EXCEPT ![r] = w.row]
         IN  IF w.exc # "" THEN [rows |-> rows1, widths |-> w.widths, exc |-> w.exc]
             ELSE WidthScan(rows1, r + 1, n, w.widths)

Widths ==
    /\ pc = "widths"
    /\ LET ws == WidthScan(list_of_lists_of_strings, 1, curr_max_num_cols, <<>>)
       IN  /\ max_col_widths' = ws.widths
           /\ list_of_lists_of_strings' = ws.rows
           /\ input_data' = Aliased(input_data, ws.rows)
           /\ pc' = IF ws.exc = "" THEN "render" ELSE "raised"
           /\ result' = IF ws.exc = "" THEN result ELSE Raise(ws.exc)
    /\ UNCHANGED <<justify_cols, table0, call, rc, curr_max_num_cols, index,
                   justify_cols_list, columnized_output_list_of_strings, line,
                   justify_col_curr, curr_col, first_result>>

\* --------------------------------------- lines 270-308: the rendering
\* lines 272-284: the next row; a one-field list or a bare string is output
\* as it is, any other row starts a line
RenderRow ==
    /\ pc = "render"
    /\ Len(columnized_output_list_of_strings) < Len(list_of_lists_of_strings)
    /\ LET row == list_of_lists_of_strings[Len(columnized_output_list_of_strings) + 1]
       IN  IF IsList(row) /\ Len(row.v) = 1
           THEN /\ columnized_output_list_of_strings' =
                     Append(columnized_output_list_of_strings,
                            <<Seg("asis", 0, row.v[1])>>)
                /\ UNCHANGED <<pc, line, justify_col_curr, curr_col>>
           ELSE IF IsStr(row)
           THEN /\ columnized_output_list_of_strings' =
                     Append(columnized_output_list_of_strings,
                            <<Seg("asis", 0, StrText(row))>>)
                /\ UNCHANGED <<pc, line, justify_col_curr, curr_col>>
           ELSE /\ line' = <<>>
                /\ justify_col_curr' = -1
                /\ curr_col' = -1
                /\ pc' = "while"
                /\ UNCHANGED columnized_output_list_of_strings
    /\ UNCHANGED <<input_data, justify_cols, table0, call, list_of_lists_of_strings,
                   rc, curr_max_num_cols, index, justify_cols_list, max_col_widths,
                   result, first_result>>

\* lines 298-301: the spacer is appended and the column is looked at again.
\* The text of a line that never ends is cut at MaxLineSegs pieces.
AddSpacer(ln, tok) ==
    IF Len(ln) >= MaxLineSegs THEN ln
    ELSE (IF Flat(ln) # <<>> THEN Append(ln, Seg("sep", 0, <<" ">>)) ELSE ln)
         \o <<Seg("spacer", 0, tok)>>

\* lines 289-296: the separator and the justified field of column c (from 0)
AddField(ln, tok, c, field, width) ==
    (IF Flat(ln) # <<>> THEN Append(ln, Seg("sep", 0, <<" ">>)) ELSE ln)
    \o <<IF tok = <<"L">> THEN Seg("L", c, Ljust(field, width + 1))
         ELSE Seg("R", c, Rjust(field, width + 1))>>

\* lines 285-288: the head of the loop; past the last column the line is done
WhileTest ==
    /\ pc = "while"
    /\ curr_col' = curr_col + 1
    /\ IF curr_col + 1 >= Len(max_col_widths)
       THEN /\ columnized_output_list_of_strings' =
                 Append(columnized_output_list_of_strings, line)
            /\ pc' = "render"
       ELSE /\ pc' = "body"
            /\ UNCHANGED columnized_output_list_of_strings
    /\ UNCHANGED <<input_data, justify_cols, table0, call, list_of_lists_of_strings,
                   rc, curr_max_num_cols, index, justify_cols_list, max_col_widths,
                   line, justify_col_curr, result, first_result>>

\* lines 289-304: the body of the loop for column curr_col
WhileBody ==
    /\ pc = "body"
    /\ LET row == list_of_lists_of_strings[Len(columnized_output_list_of_strings) + 1]
           jc == IF justify_col_curr < Len(justify_cols_list) - 1
                 THEN justify_col_curr + 1 ELSE justify_col_curr
           tok == justify_cols_list[jc + 1]
       IN  /\ justify_col_curr' = jc
           /\ IF IsJustify(tok)
              THEN IF curr_col >= Len(row.v)
                   THEN /\ pc' = "raised"
                        /\ result' = Raise("IndexError")
                        /\ UNCHANGED <<line, curr_col>>
                   ELSE /\ line' = AddField(line, tok, curr_col, row.v[curr_col + 1],
                                            max_col_widths[curr_col + 1])
                        /\ pc' = "while"
                        /\ UNCHANGED <<curr_col, result>>
              ELSE IF IsSpacer(tok)
              THEN /\ line' = AddSpacer(line, tok)
                   /\ curr_col' = curr_col - 1
                   /\ pc' = "while"
                   /\ UNCHANGED result
              ELSE /\ pc' = "exit"
                   /\ result' = [how |-> "exit", rc |-> 1, lines |-> <<>>,
                                 info |-> "Unrecognized justify param"]
                   /\ UNCHANGED <<line, curr_col>>
    /\ UNCHANGED <<input_data, justify_cols, table0, call, list_of_lists_of_strings,
                   rc, curr_max_num_cols, index, justify_cols_list, max_col_widths,
                   columnized_output_list_of_strings, first_result>>

\* line 321 (save_filename is ''): every row is rendered
Return ==
    /\ pc = "render"
    /\ Len(columnized_output_list_of_strings) = Len(list_of_lists_of_strings)
    /\ pc' = "returned"
    /\ result' = [how |-> "returned", rc |-> rc,
                  lines |-> [i \in 1..Len(columnized_output_list_of_strings) |->
                                Flat(columnized_output_list_of_strings[i])],
                  info |-> ""]
    /\ UNCHANGED <<input_data, justify_cols, table0, call, list_of_lists_of_strings,
                   rc, curr_max_num_cols, index, justify_cols_list, max_col_widths,
                   columnized_output_list_of_strings, line, justify_col_curr,
                   curr_col, first_result>>

\* the caller passes the same list, as the first call left it, once more
\* (a stream read to its end is not passed again)
CallAgain ==
    /\ pc = "returned"
    /\ call = 1
    /\ input_data.type = "list"
    /\ call' = 2
    /\ first_result' = result
    /\ result' = NoResult
    /\ pc' = "entry"
    /\ list_of_lists_of_strings' = <<>>
    /\ rc' = 0
    /\ curr_max_num_cols' = 0
    /\ index' = 1
    /\ justify_cols_list' = <<>>
    /\ max_col_widths' = <<>>
    /\ columnized_output_list_of_strings' = <<>>
    /\ line' = <<>>
    /\ justify_col_curr' = -1
    /\ curr_col' = -1
    /\ UNCHANGED <<input_data, justify_cols, table0>>

\* ================================================================ claims
Terminal == {"returned", "raised", "exit"}

\* the rows the call was given, as lines 159-181 read them
Rows0 == ReadInput([type |-> input_data.type, v |-> table0]).rows

AllLists(rows) == \A i \in 1..Len(rows) : IsList(rows[i])

SetMax(S) == CHOOSE x \in S : \A y \in S : y <= x

\* the character length of a field's text (None stands for '')
TextLen(x) == IF x = None THEN 0 ELSE Len(x)

\* the rows that are aligned: lists whose field count is not 1
Aligned(rows) == {i \in 1..Len(rows) : IsList(rows[i]) /\ Len(rows[i].v) # 1}

\* the width of column c over the aligned rows of the input
InputWidth(rows, c) ==
    SetMax({0} \cup {TextLen(rows[i].v[c]) : i \in {k \in Aligned(rows) : Len(rows[k].v) >= c}})

InputCols(rows) == SetMax({0} \cup {Len(rows[i].v) : i \in Aligned(rows)})

\* C1: a row of exactly one field is emitted as that field, at its place,
\* whatever the other rows are, and adds nothing to the column count or to
\* the column widths.
PassthroughLaw ==
    (pc = "returned" /\ call = 1 /\ result.rc # 1) =>
        /\ Len(result.lines) = Len(Rows0)
        /\ \A i \in 1..Len(Rows0) :
              (IsList(Rows0[i]) /\ Len(Rows0[i].v) = 1) => result.lines[i] = Rows0[i].v[1]
        /\ Len(max_col_widths) = InputCols(Rows0)
        /\ \A c \in 1..Len(max_col_widths) : max_col_widths[c] = InputWidth(Rows0, c)

\* C2: when the reconciliation loop is over, every row whose field count is
\* not 1 has exactly curr_max_num_cols fields, the largest such count.
NormalizationInvariant ==
    pc = "widths" =>
        LET np == Aligned(list_of_lists_of_strings)
        IN  /\ \A i \in np : Len(list_of_lists_of_strings[i].v) = curr_max_num_cols
            /\ np # {} =>
                 curr_max_num_cols = SetMax({Len(list_of_lists_of_strings[i].v) : i \in np})

\* C3: the call on [] and the call on [""] return status 1 and no line.
EmptyInputFails ==
    (call = 1 /\ pc \in Terminal /\ input_data.type = "list"
       /\ (table0 = <<>> \/ table0 = <<StrRow(<<>>)>>)) =>
        (pc = "returned" /\ result.rc = 1 /\ result.lines = <<>>)

Ragged(rows) ==
    \E i, k \in Aligned(rows) : Len(rows[i].v) # Len(rows[k].v)

\* C4: a table of lists in which two rows that are not one-field rows differ
\* in field count is rendered to the end with status 2, one line per row;
\* without such rows the status is 0.  (Stated for the default justify_cols.)
RaggedRowsAreWarning ==
    (call = 1 /\ pc \in Terminal /\ justify_cols = DefaultJustify
       /\ Rows0 # <<>> /\ AllLists(Rows0)) =>
        /\ pc = "returned"
        /\ Len(result.lines) = Len(Rows0)
        /\ result.rc = IF Ragged(Rows0) THEN 2 ELSE 0

\* a token that is not 'L', not 'R' and not a run of blanks
BadToken(tok) ==
    /\ tok # <<"L">>
    /\ tok # <<"R">>
    /\ ~(tok # <<>> /\ \A i \in 1..Len(tok) : tok[i] = " ")

LRToken(tok) == tok = <<"L">> \/ tok = <<"R">>

BadTokenReached ==
    LET toks == Split(justify_cols)
    IN  /\ Aligned(list_of_lists_of_strings) # {}
        /\ \E p \in 1..Len(toks) :
              /\ BadToken(toks[p])
              /\ Len(SelectSeq(SubSeq(toks, 1, p - 1), LRToken)) < Len(max_col_widths)

LRTokens == SelectSeq(Split(justify_cols), LRToken)
DueJustify(k) ==
    IF k <= Len(LRTokens) THEN LRTokens[k][1] ELSE LRTokens[Len(LRTokens)][1]

FieldSegs(ln) == SelectSeq(ln, LAMBDA sg : sg.j \in {"L", "R"})

SameCount(rows) == \A i, k \in 1..Len(rows) : Len(rows[i].v) = Len(rows[k].v)

RECURSIVE ClaimedLength(_, _)
ClaimedLength(rows, c) ==
    IF c = 0 THEN Len(rows[1].v) - 1
    ELSE SetMax({TextLen(rows[i].v[c]) : i \in 1..Len(rows)}) + 1
         + ClaimedLength(rows, c - 1)

EqualCounts ==
    /\ pc = "returned"
    /\ justify_cols = DefaultJustify
    /\ Rows0 # <<>>
    /\ AllLists(Rows0)
    /\ SameCount(Rows0)

\* C7 as claimed: rows of one field count C under 'L,R' give lines of one
\* length, the sum of (width + 1) over the columns plus C - 1.
UniformLineLength ==
    EqualCounts =>
        \A i \in 1..Len(result.lines) :
            Len(result.lines[i]) = ClaimedLength(Rows0, Len(Rows0[1].v))

\* C7 as amended: the same for a field count C of at least 2
UniformLineLengthFrom2 ==
    (EqualCounts /\ Len(Rows0[1].v) >= 2) =>
        \A i \in 1..Len(result.lines) :
            Len(result.lines[i]) = ClaimedLength(Rows0, Len(Rows0[1].v))

\* C7, its case: rows of one field count of at least 2 whose fields differ in
\* length within a column
UniformLineLengthCase ==
    /\ EqualCounts
    /\ Len(Rows0[1].v) >= 2
    /\ \E i, k \in 1..Len(Rows0) : \E c \in 1..Len(Rows0[1].v) :
          TextLen(Rows0[i].v[c]) # TextLen(Rows0[k].v[c])

\* C8: a spacer between two columns stands alone between the two padded
\* fields: the piece before it and the piece after it are the fields of two
\* columns next to each other, with no separator blank on either side.
SpacerSuppliesSeparator ==
    pc = "returned" =>
        \A i \in 1..Len(columnized_output_list_of_strings) :
            LET ln == columnized_output_list_of_strings[i]
            IN  \A p \in 2..(Len(ln) - 1) :
                   (/\ ln[p].j = "spacer"
                    /\ \E q \in 1..(p - 1) : ln[q].j \in {"L", "R"}
                    /\ \E q \in (p + 1)..Len(ln) : ln[q].j \in {"L", "R"}) =>
                       /\ ln[p - 1].j \in {"L", "R"}
                       /\ ln[p + 1].j \in {"L", "R"}
                       /\ ln[p + 1].c = ln[p - 1].c + 1

\* C9: the second call on the same list returns the lines the first call
\* returned.
Idempotence ==
    (call = 2 /\ pc \in Terminal) =>
        (pc = "returned" /\ result.lines = first_result.lines)

\* C9, its case: the second call has returned on a list that the first call
\* padded and converted in place (a None field among its rows)
IdempotenceOnPaddedInput ==
    /\ call = 2
    /\ pc = "returned"
    /\ first_result.rc = 2
    /\ input_data.v # table0
    /\ \E i \in 1..Len(table0) : \E c \in 1..Len(table0[i].v) : table0[i].v[c] = None

OnlyLRSpacer ==
    \A p \in 1..Len(Split(justify_cols)) : ~BadToken(Split(justify_cols)[p])

\* C10: with only 'L', 'R' and spacer tokens the loop of line 285 is left
\* after finitely many iterations.
RenderingTerminates ==
    (pc \in {"while", "body"} /\ OnlyLRSpacer) ~> (pc \notin {"while", "body"})

Next ==
    \/ Enter
    \/ ReconcileRow
    \/ PadJustify
    \/ Widths
    \/ RenderRow
    \/ WhileTest
    \/ WhileBody
    \/ Return
    \/ CallAgain

Spec == Init /\ [][Next]_vars

\* the call is sequential code: a step that can be taken is taken
FairSpec == Spec /\ WF_vars(WhileTest) /\ WF_vars(WhileBody)
====
